---- MODULE Spec2Model ----
(***************************************************************************)
(* Hodgkin-Huxley_AP.ipynb: the class HodgkinHuxleyModel (one membrane     *)
(* patch, state V, m, h, n, integrated by forward Euler or RK4) and the    *)
(* simulation cell that drives it with a double-exponential synaptic       *)
(* current and counts the spikes of the recorded voltage.                  *)
(*                                                                         *)
(* Numbers.  The notebook computes in IEEE binary64.  Here a finite number *)
(* x is the integer trunc(x * S) (decimal fixed point, S units to 1.0,     *)
(* every operation rounded toward zero), and the three non-finite binary64 *)
(* values are the integers NaN, PInf and NInf outside the finite range     *)
(* -MaxFin .. MaxFin.  Each floating-point operation of the source is one  *)
(* FAdd / FSub / FMul / FDiv / Exp here, in the source's order.  The       *)
(* resolution is 1/S where binary64's is about 1e-16: a product below 1/S  *)
(* is 0, so the rate functions are also undefined within a few units of    *)
(* their singular voltages, not only exactly there.                        *)
(*                                                                         *)
(* Left out: time = np.arange(0.0, T, dt), tqdm and the plotting cell,     *)
(* which nothing modelled here reads.                                      *)
(***************************************************************************)
EXTENDS Integers, Sequences, FiniteSets, TLC

\* ------------------------------------------------------------ float64 ---
S == 10000
MaxFin == 200000000
PInf == 2000000001
NInf == -2000000001
NaN == 2000000002

IsFin(a) == a # NaN /\ a # PInf /\ a # NInf
IsInf(a) == a = PInf \/ a = NInf
Abs(a) == IF a < 0 THEN -a ELSE a
Sgn(a) == IF a = NInf THEN -1 ELSE IF a = PInf THEN 1
          ELSE IF a < 0 THEN -1 ELSE IF a > 0 THEN 1 ELSE 0
InfOf(s) == IF s < 0 THEN NInf ELSE PInf
\* A finite result beyond the finite range overflows to an infinity.
Clip(v) == IF v > MaxFin THEN PInf ELSE IF v < -MaxFin THEN NInf ELSE v

FNeg(a) == IF a = NaN THEN NaN ELSE IF a = PInf THEN NInf
           ELSE IF a = NInf THEN PInf ELSE -a

FAdd(a, b) ==
    IF a = NaN \/ b = NaN THEN NaN
    ELSE IF IsInf(a) /\ IsInf(b) THEN (IF a = b THEN a ELSE NaN)
    ELSE IF IsInf(a) THEN a
    ELSE IF IsInf(b) THEN b
    ELSE Clip(a + b)

FSub(a, b) == FAdd(a, FNeg(b))

\* |a| * |b| / S, truncated, without leaving 32 bits.
MulMag(A, B) ==
    LET Ah == A \div S
        Al == A % S
        Bh == B \div S
        Bl == B % S
    IN  IF Ah > 0 /\ Bh > (MaxFin \div S) \div Ah THEN MaxFin + 1
        ELSE Ah * Bh * S + Ah * Bl + Al * Bh + (Al * Bl) \div S

FMul(a, b) ==
    IF a = NaN \/ b = NaN THEN NaN
    ELSE IF IsInf(a) \/ IsInf(b)
         THEN (IF Sgn(a) * Sgn(b) = 0 THEN NaN ELSE InfOf(Sgn(a) * Sgn(b)))
    ELSE Clip(Sgn(a) * Sgn(b) * MulMag(Abs(a), Abs(b)))

\* Decimal long division: the next n digits of rem / B appended to q.
RECURSIVE DivDigits(_, _, _, _)
DivDigits(q, rem, B, n) ==
    IF n = 1 THEN q
    ELSE DivDigits(q * 10 + (rem * 10) \div B, (rem * 10) % B, B, n \div 10)

\* |a| * S / |b|, truncated, B > 0.
DivMag(A, B) ==
    IF A \div B > MaxFin \div S THEN MaxFin + 1
    ELSE DivDigits(A \div B, A % B, B, S)

FDiv(a, b) ==
    IF a = NaN \/ b = NaN THEN NaN
    ELSE IF IsInf(a) THEN (IF IsInf(b) THEN NaN
                           ELSE InfOf(Sgn(a) * (IF b < 0 THEN -1 ELSE 1)))
    ELSE IF IsInf(b) THEN 0
    ELSE IF b = 0 THEN (IF a = 0 THEN NaN ELSE InfOf(a))
    ELSE Clip(Sgn(a) * Sgn(b) * DivMag(Abs(a), Abs(b)))

\* a < b and a > b of binary64: every comparison with NaN is false.
FLt(a, b) ==
    IF a = NaN \/ b = NaN THEN FALSE
    ELSE IF a = NInf THEN b # NInf
    ELSE IF b = PInf THEN a # PInf
    ELSE IF a = PInf \/ b = NInf THEN FALSE
    ELSE a < b
FGt(a, b) == FLt(b, a)

\* np.exp.  e^f for 0 <= f < 1 by its Taylor polynomial (Horner), e^k by
\* repeated multiplication, e^-x as 1 / e^x.
EulerE == 27183
ExpTerms == 9
RECURSIVE ExpFrac(_, _)
ExpFrac(f, j) ==
    IF j > ExpTerms THEN S ELSE S + MulMag(f, ExpFrac(f, j + 1)) \div j
RECURSIVE ExpInt(_)
ExpInt(k) == IF k = 0 THEN S ELSE FMul(EulerE, ExpInt(k - 1))
ExpPos(x) ==
    IF x \div S > 10 THEN PInf
    ELSE FMul(ExpInt(x \div S), ExpFrac(x % S, 1))
Exp(x) ==
    IF x = NaN THEN NaN
    ELSE IF x = PInf THEN PInf
    ELSE IF x = NInf THEN 0
    ELSE IF x >= 0 THEN ExpPos(x)
    ELSE FDiv(S, ExpPos(-x))


\* A decimal literal n/d of the source as a number of the model.
Lit(n, d) == (n * S) \div d

\* ------------------------------------------------ HodgkinHuxleyModel ---
\* The value None: of a scalar field, and of a state vector.
None == 2000000003
NoneVec == <<>>

\* __init__(self, dt, solver): the object's fields.
HodgkinHuxleyModel(dt, solver) ==
    [C_m    |-> Lit(1, 1),
     g_Na   |-> Lit(120, 1),
     g_K    |-> Lit(36, 1),
     g_L    |-> Lit(3, 10),
     E_Na   |-> Lit(50, 1),
     E_K    |-> Lit(-77, 1),
     E_L    |-> Lit(-54387, 1000),
     solver |-> solver,
     dt     |-> dt,
     states |-> <<Lit(-65, 1), Lit(5, 100), Lit(6, 10), Lit(32, 100)>>,
     I_m    |-> None]

alpha_m(V) ==
    FDiv(FMul(Lit(1, 10), FAdd(V, Lit(40, 1))),
         FSub(Lit(1, 1), Exp(FDiv(FNeg(FAdd(V, Lit(40, 1))), Lit(10, 1)))))

beta_m(V) ==
    FMul(Lit(4, 1), Exp(FDiv(FNeg(FAdd(V, Lit(65, 1))), Lit(18, 1))))

alpha_h(V) ==
    FMul(Lit(7, 100), Exp(FDiv(FNeg(FAdd(V, Lit(65, 1))), Lit(20, 1))))

beta_h(V) ==
    FDiv(Lit(1, 1),
         FAdd(Lit(1, 1), Exp(FDiv(FNeg(FAdd(V, Lit(35, 1))), Lit(10, 1)))))

alpha_n(V) ==
    FDiv(FMul(Lit(1, 100), FAdd(V, Lit(55, 1))),
         FSub(Lit(1, 1), Exp(FDiv(FNeg(FAdd(V, Lit(55, 1))), Lit(10, 1)))))

beta_n(V) ==
    FMul(Lit(125, 1000), Exp(FDiv(FNeg(FAdd(V, Lit(65, 1))), Lit(80, 1))))

I_Na(self, V, m, h) ==
    FMul(FMul(FMul(self.g_Na, FMul(FMul(m, m), m)), h), FSub(V, self.E_Na))

I_K(self, V, n) ==
    FMul(FMul(self.g_K, FMul(FMul(FMul(n, n), n), n)), FSub(V, self.E_K))

I_L(self, V) == FMul(self.g_L, FSub(V, self.E_L))

\* dALLdt(self, states), called with self.I_m set (a number).
dALLdt(self, states) ==
    LET V == states[1]
        m == states[2]
        h == states[3]
        n == states[4]
        dVdt == FDiv(FSub(FSub(FSub(self.I_m, I_Na(self, V, m, h)),
                               I_K(self, V, n)), I_L(self, V)), self.C_m)
        dmdt == FSub(FMul(alpha_m(V), FSub(Lit(1, 1), m)), FMul(beta_m(V), m))
        dhdt == FSub(FMul(alpha_h(V), FSub(Lit(1, 1), h)), FMul(beta_h(V), h))
        dndt == FSub(FMul(alpha_n(V), FSub(Lit(1, 1), n)), FMul(beta_n(V), n))
    IN  <<dVdt, dmdt, dhdt, dndt>>

\* numpy's elementwise array arithmetic on the 4-vectors.
VAdd(a, b) ==
    <<FAdd(a[1], b[1]), FAdd(a[2], b[2]), FAdd(a[3], b[3]), FAdd(a[4], b[4])>>
SMul(c, a) == <<FMul(c, a[1]), FMul(c, a[2]), FMul(c, a[3]), FMul(c, a[4])>>
VDiv(a, c) == <<FDiv(a[1], c), FDiv(a[2], c), FDiv(a[3], c), FDiv(a[4], c)>>

\* The RK4 branch of Solvers.  k = dt*func(p) at a point p; the points
\* after the first; the combination returned.
RK4_k(self, p, dt) == SMul(dt, dALLdt(self, p))
\* RK4_half with a fault: the factor 0.5 is missing.
RK4_half_NoHalf(x, k) == VAdd(x, k)
RK4_half(x, k) == VAdd(x, SMul(Lit(5, 10), k))
RK4_full(x, k) == VAdd(x, k)
RK4_sum(x, k1, k2, k3, k4) ==
    VAdd(x, VDiv(VAdd(VAdd(VAdd(k1, SMul(Lit(2, 1), k2)),
                           SMul(Lit(2, 1), k3)), k4),
                 Lit(6, 1)))
\* The statements of the branch in order, each k computed once (a set
\* constructor's bound name holds a value): the points func is called at,
\* the four k, the value returned.
RK4(self, x, dt) ==
    CHOOSE res \in UNION { UNION { UNION {
        { [at  |-> <<x, RK4_half(x, k1), RK4_half(x, k2), RK4_full(x, k3)>>,
           k   |-> <<k1, k2, k3, k4>>,
           ret |-> RK4_sum(x, k1, k2, k3, k4)] :
          k4 \in {RK4_k(self, RK4_full(x, k3), dt)} } :
          k3 \in {RK4_k(self, RK4_half(x, k2), dt)} } :
          k2 \in {RK4_k(self, RK4_half(x, k1), dt)} } :
          k1 \in {RK4_k(self, x, dt)} } : TRUE

\* The Euler branch of Solvers.
Euler(self, x, dt) ==
    [at  |-> <<x>>,
     k   |-> <<>>,
     ret |-> VAdd(x, SMul(dt, dALLdt(self, x)))]

\* Solvers(self, func, x, dt) with func = self.dALLdt: the value returned.
Solvers(self, x, dt) ==
    IF self.solver = "RK4" THEN RK4(self, x, dt).ret
    ELSE IF self.solver = "Euler" THEN Euler(self, x, dt).ret
    ELSE NoneVec

\* The calls of func that Solvers makes, in order: the point each is made
\* at and the self.I_m that dALLdt reads there.
SolverEvals(self, x, dt) ==
    LET at == IF self.solver = "RK4" THEN RK4(self, x, dt).at
              ELSE IF self.solver = "Euler" THEN Euler(self, x, dt).at
              ELSE <<>>
    IN  [j \in 1..Len(at) |-> [at |-> at[j], I |-> self.I_m]]

\* Call with a fault: self.states = states is missing.
Call_NoStore(self, I) ==
    LET self1 == [self EXCEPT !.I_m = I]
    IN  [obj   |-> self1,
         ret   |-> Solvers(self1, self1.states, self1.dt),
         evals |-> SolverEvals(self1, self1.states, self1.dt)]
\* Call with a fault: self.I_m = I comes after the solver has run.
Call_StaleDrive(self, I) ==
    LET old == [self EXCEPT !.I_m = IF @ = None THEN 0 ELSE @]
        states == Solvers(old, old.states, old.dt)
    IN  [obj   |-> [old EXCEPT !.states = states, !.I_m = I],
         ret   |-> states,
         evals |-> SolverEvals(old, old.states, old.dt)]
\* __call__(self, I): the object afterwards, the value returned, and the
\* derivative evaluations made on the way.
Call(self, I) ==
    LET self1 == [self EXCEPT !.I_m = I]
        states == Solvers(self1, self1.states, self1.dt)
    IN  [obj   |-> [self1 EXCEPT !.states = states],
         ret   |-> states,
         evals |-> SolverEvals(self1, self1.states, self1.dt)]

\* -------------------------------------------------- simulation cell ---
VARIABLES
    pc,          \* where the cell is: config, for, r, hr, append, call,
                 \* store, detect, done, error (api: no cell, calls only)
    outcome,     \* the exception that ended the cell, "" for none
    dt, T,       \* step size and duration (ms)
    solver,      \* the solver name given to the constructor
    spike_times, \* the indices set to 1 in the spike train
    nt,          \* number of steps
    spike,       \* the spike train; after the loop, the crossing mask
    HH_neuron,   \* the HodgkinHuxleyModel object
    r, hr,       \* synaptic trace pair
    X_arr,       \* the record, nt rows of 4
    r_list,      \* the r of every iteration
    nextI, i,    \* range(nt)'s position, and the loop variable
    X,           \* the value the last call returned
    evals,       \* the derivative evaluations the last __call__ made
    num_spikes,  \* np.sum(spike), as printed
    calls,       \* number of __call__ made so far
    op, arg      \* the last method called on the object and its argument

vars == <<pc, outcome, dt, T, solver, spike_times, nt, spike, HH_neuron, r, hr,
          X_arr, r_list, nextI, i, X, evals, num_spikes, calls, op, arg>>

\* Bounds of the configurations explored.
MaxSteps == 3
MaxCalls == 3
MaxRec == 3

tr == 2
td == 20
Scale == 50

SolverNames == {"RK4", "Euler", "Heun"}
DtSet == {Lit(1, 100), Lit(5, 100), Lit(1, 10), 0, Lit(-5, 100), Lit(-25, 100)}
TSet == {k * Lit(5, 100) : k \in 1..MaxSteps}
IndexSet == 0..(MaxSteps - 1)

\* A name not bound yet holds None (a number), NoneVec / <<>> (an array, a
\* list) or Unbound (the object).
Unbound ==
    [C_m |-> None, g_Na |-> None, g_K |-> None, g_L |-> None, E_Na |-> None,
     E_K |-> None, E_L |-> None, solver |-> "", dt |-> None,
     states |-> NoneVec, I_m |-> None]

\* Python's round() of a finite float: to the nearest integer, ties to even.
PyRound(v) ==
    LET q   == Abs(v) \div S
        rem == Abs(v) % S
        n   == IF 2 * rem > S \/ (2 * rem = S /\ q % 2 = 1) THEN q + 1 ELSE q
    IN  Sgn(v) * n

\* SpikeTrain with a fault: every impulse lands one index early.
SpikeTrain_Early(n, times) == [j \in 1..n |-> IF j \in times THEN Lit(1, 1) ELSE 0]
\* np.zeros(n) with spike[spike_times] = 1.
SpikeTrain(n, times) == [j \in 1..n |-> IF (j - 1) \in times THEN Lit(1, 1) ELSE 0]
\* np.zeros((n, 4)).
Zeros4(n) == [j \in 1..n |-> <<0, 0, 0, 0>>]

\* RNext with a fault: hr is updated first, so r is computed from the
\* decayed hr.
RNext_FromNewHr(r0, hr0, d) ==
    FAdd(FMul(r0, FSub(Lit(1, 1), FDiv(d, Lit(tr, 1)))),
         FMul(FMul(hr0, FSub(Lit(1, 1), FDiv(d, Lit(td, 1)))), d))
\* r = r*(1-dt/tr) + hr*dt
RNext(r0, hr0, d) ==
    FAdd(FMul(r0, FSub(Lit(1, 1), FDiv(d, Lit(tr, 1)))), FMul(hr0, d))
\* hr = hr*(1-dt/td) + spike[i]/(tr*td)
HrNext(hr0, sp, d) ==
    FAdd(FMul(hr0, FSub(Lit(1, 1), FDiv(d, Lit(td, 1)))),
         FDiv(sp, Lit(tr * td, 1)))
\* Drive with a fault: r+50 for r*50.
Drive_Plus(r0) == FAdd(r0, Lit(Scale, 1))
\* r*50
Drive(r0) == FMul(r0, Lit(Scale, 1))

\* X_arr[i] = X: a float row takes None as NaN.
ToRow(v) == IF v = NoneVec THEN <<NaN, NaN, NaN, NaN>> ELSE v

\* CrossMask with a fault: the comparisons are not strict.
CrossMask_NonStrict(arr) ==
    [j \in 1..(IF Len(arr) = 0 THEN 0 ELSE Len(arr) - 1) |->
        (FLt(arr[j][1], 0) \/ arr[j][1] = 0)
        /\ (FGt(arr[j + 1][1], 0) \/ arr[j + 1][1] = 0)]
\* np.bitwise_and(X_arr[:-1, 0] < 0, X_arr[1:, 0] > 0)
CrossMask(arr) ==
    [j \in 1..(IF Len(arr) = 0 THEN 0 ELSE Len(arr) - 1) |->
        FLt(arr[j][1], 0) /\ FGt(arr[j + 1][1], 0)]
\* np.sum of a boolean array.
RECURSIVE NpSum(_)
NpSum(mask) ==
    IF Len(mask) = 0 THEN 0
    ELSE (IF mask[1] THEN 1 ELSE 0) + NpSum(Tail(mask))

Init ==
    /\ pc = "config"
    /\ outcome = ""
    /\ dt \in DtSet
    /\ T \in TSet
    /\ solver \in SolverNames
    /\ spike_times \in SUBSET IndexSet
    /\ nt = None
    /\ spike = <<>>
    /\ HH_neuron = Unbound
    /\ r = None
    /\ hr = None
    /\ X_arr = <<>>
    /\ r_list = <<>>
    /\ nextI = None
    /\ i = None
    /\ X = NoneVec
    /\ evals = <<>>
    /\ num_spikes = None
    /\ calls = 0
    /\ op = ""
    /\ arg = None

\* nt = round(T/dt) ... X_arr = np.zeros((nt, 4)); r_list = []
Setup ==
    /\ pc = "config"
    /\ IF dt = 0
       THEN /\ pc' = "error"
            /\ outcome' = "ZeroDivisionError"
            /\ UNCHANGED <<nt, spike, HH_neuron, r, hr, X_arr, nextI>>
       ELSE LET n == PyRound(FDiv(T, dt)) IN
            /\ nt' = n
            /\ IF n < 0
               THEN /\ pc' = "error"
                    /\ outcome' = "ValueError"
                    /\ UNCHANGED <<spike, HH_neuron, r, hr, X_arr, nextI>>
               ELSE IF \E t \in spike_times : t >= n
               THEN /\ pc' = "error"
                    /\ outcome' = "IndexError"
                    /\ spike' = SpikeTrain(n, {})
                    /\ UNCHANGED <<HH_neuron, r, hr, X_arr, nextI>>
               ELSE /\ pc' = "for"
                    /\ outcome' = ""
                    /\ spike' = SpikeTrain(n, spike_times)
                    /\ HH_neuron' = HodgkinHuxleyModel(dt, solver)
                    /\ r' = 0
                    /\ hr' = 0
                    /\ X_arr' = Zeros4(n)
                    /\ nextI' = 0
    /\ UNCHANGED <<dt, T, solver, spike_times, r_list, i, X, evals,
                   num_spikes, calls, op, arg>>

\* for i in range(nt): the next index
ForEnter ==
    /\ pc = "for"
    /\ nextI < nt
    /\ i' = nextI
    /\ nextI' = nextI + 1
    /\ pc' = "r"
    /\ UNCHANGED <<outcome, dt, T, solver, spike_times, nt, spike, HH_neuron,
                   r, hr, X_arr, r_list, X, evals, num_spikes, calls, op, arg>>

\* for i in range(nt): exhausted
ForExit ==
    /\ pc = "for"
    /\ nextI >= nt
    /\ pc' = "detect"
    /\ UNCHANGED <<outcome, dt, T, solver, spike_times, nt, spike, HH_neuron,
                   r, hr, X_arr, r_list, nextI, i, X, evals, num_spikes,
                   calls, op, arg>>

UpdateR ==
    /\ pc = "r"
    /\ r' = RNext(r, hr, dt)
    /\ pc' = "hr"
    /\ UNCHANGED <<outcome, dt, T, solver, spike_times, nt, spike, HH_neuron,
                   hr, X_arr, r_list, nextI, i, X, evals, num_spikes, calls,
                   op, arg>>

UpdateHr ==
    /\ pc = "hr"
    /\ hr' = HrNext(hr, spike[i + 1], dt)
    /\ pc' = "append"
    /\ UNCHANGED <<outcome, dt, T, solver, spike_times, nt, spike, HH_neuron,
                   r, X_arr, r_list, nextI, i, X, evals, num_spikes, calls,
                   op, arg>>

AppendR ==
    /\ pc = "append"
    /\ r_list' = Append(r_list, r)
    /\ pc' = "call"
    /\ UNCHANGED <<outcome, dt, T, solver, spike_times, nt, spike, HH_neuron,
                   r, hr, X_arr, nextI, i, X, evals, num_spikes, calls, op,
                   arg>>

\* X = HH_neuron(r*50)
CallModel ==
    /\ pc = "call"
    /\ \E c \in {Call(HH_neuron, Drive(r))} :
        /\ HH_neuron' = c.obj
        /\ X' = c.ret
        /\ evals' = c.evals
    /\ calls' = calls + 1
    /\ op' = "call"
    /\ arg' = Drive(r)
    /\ pc' = "store"
    /\ UNCHANGED <<outcome, dt, T, solver, spike_times, nt, spike, r, hr,
                   X_arr, r_list, nextI, i, num_spikes>>

\* X_arr[i] = X
StoreRow ==
    /\ pc = "store"
    /\ X_arr' = [X_arr EXCEPT ![i + 1] = ToRow(X)]
    /\ pc' = "for"
    /\ UNCHANGED <<outcome, dt, T, solver, spike_times, nt, spike, HH_neuron,
                   r, hr, r_list, nextI, i, X, evals, num_spikes, calls, op,
                   arg>>

\* spike = np.bitwise_and(...); print(np.sum(spike))
Detect ==
    /\ pc = "detect"
    /\ spike' = CrossMask(X_arr)
    /\ num_spikes' = NpSum(CrossMask(X_arr))
    /\ pc' = "done"
    /\ UNCHANGED <<outcome, dt, T, solver, spike_times, nt, HH_neuron, r, hr,
                   X_arr, r_list, nextI, i, X, evals, calls, op, arg>>

Next ==
    \/ Setup
    \/ ForEnter
    \/ ForExit
    \/ UpdateR
    \/ UpdateHr
    \/ AppendR
    \/ CallModel
    \/ StoreRow
    \/ Detect

Spec == Init /\ [][Next]_vars

\* ------------------------------------------- the object used directly ---
\* A caller that constructs the object and then calls it (step) and its
\* dALLdt (derivative) in any order, with arguments from small sets.
ApiDt == {Lit(1, 100), Lit(5, 100), Lit(-1, 100)}
ApiDrives == {0, Lit(10, 1)}
ProbeV == {Lit(-65, 1), Lit(-55, 1), Lit(-40, 1), Lit(-30, 1), 0}
ProbeStates == {<<v, Lit(5, 100), Lit(6, 10), Lit(32, 100)>> : v \in ProbeV}

InitAPI ==
    /\ pc = "api"
    /\ outcome = ""
    /\ dt \in ApiDt
    /\ solver \in SolverNames
    /\ HH_neuron = HodgkinHuxleyModel(dt, solver)
    /\ T = None
    /\ spike_times = {}
    /\ nt = None
    /\ spike = <<>>
    /\ r = None
    /\ hr = None
    /\ X_arr = <<>>
    /\ r_list = <<>>
    /\ nextI = None
    /\ i = None
    /\ X = NoneVec
    /\ evals = <<>>
    /\ num_spikes = None
    /\ calls = 0
    /\ op = "init"
    /\ arg = None

\* HH_neuron(I)
ApiCall(I) ==
    /\ pc = "api"
    /\ calls < MaxCalls
    /\ \E c \in {Call(HH_neuron, I)} :
        /\ HH_neuron' = c.obj
        /\ X' = c.ret
        /\ evals' = c.evals
    /\ calls' = calls + 1
    /\ op' = "call"
    /\ arg' = I
    /\ UNCHANGED <<pc, outcome, dt, T, solver, spike_times, nt, spike, r, hr,
                   X_arr, r_list, nextI, i, num_spikes>>

\* HH_neuron.dALLdt(st): None for I_m, or None to unpack, is a TypeError.
ApiDeriv(st) ==
    /\ pc = "api"
    /\ op' = "deriv"
    /\ evals' = <<[at |-> st, I |-> HH_neuron.I_m]>>
    /\ IF st = NoneVec \/ HH_neuron.I_m = None
       THEN /\ pc' = "error"
            /\ outcome' = "TypeError"
            /\ X' = X
       ELSE /\ X' = dALLdt(HH_neuron, st)
            /\ UNCHANGED <<pc, outcome>>
    /\ UNCHANGED <<dt, T, solver, spike_times, nt, spike, HH_neuron, r, hr,
                   X_arr, r_list, nextI, i, num_spikes, calls, arg>>

NextAPI ==
    \/ \E I \in ApiDrives : ApiCall(I)
    \/ \E st \in ProbeStates \cup {HH_neuron.states} : ApiDeriv(st)

SpecAPI == InitAPI /\ [][NextAPI]_vars

\* ------------------------------------------ the detector on any record ---
\* The cell at the end of its loop with any record of up to MaxRec rows.
DetectV == {Lit(-65, 1), Lit(-1, 10), 0, Lit(30, 1), NaN}
RecordInit ==
    /\ pc = "detect"
    /\ outcome = ""
    /\ dt = Lit(1, 100)
    /\ solver = "Euler"
    /\ spike_times = {}
    /\ nt \in 0..MaxRec
    /\ T = nt * dt
    /\ spike = SpikeTrain(nt, {})
    /\ X_arr \in [1..nt -> {<<v, Lit(5, 100), Lit(6, 10), Lit(32, 100)>> :
                              v \in DetectV}]
    /\ X = IF nt = 0 THEN NoneVec ELSE X_arr[nt]
    /\ HH_neuron = [HodgkinHuxleyModel(dt, solver) EXCEPT
                        !.I_m = 0,
                        !.states = IF nt = 0 THEN @ ELSE X_arr[nt]]
    /\ r = 0
    /\ hr = 0
    /\ r_list = [j \in 1..nt |-> 0]
    /\ nextI = nt
    /\ i = IF nt = 0 THEN None ELSE nt - 1
    /\ evals = <<>>
    /\ num_spikes = None
    /\ calls = nt
    /\ op = IF nt = 0 THEN "" ELSE "call"
    /\ arg = IF nt = 0 THEN None ELSE 0

InitDetect == Init \/ RecordInit

SpecDetect == InitDetect /\ [][Next]_vars

\* ================================================================ claims
Supported == {"RK4", "Euler"}
Finite4(v) == Len(v) = 4 /\ \A j \in 1..4 : IsFin(v[j])

\* C1: a solver name other than "Euler" or "RK4" is an explicit error: the
\* construction or the first call ends in an error, and no call returns
\* None or stores None as the object's state.
C1_UnknownSolverIsError ==
    /\ (solver \notin Supported /\ calls >= 1) => pc = "error"
    /\ calls >= 1 => (X # NoneVec /\ HH_neuron.states # NoneVec)

\* C2: alpha_m at V = -40 and alpha_n at V = -55 are finite, so a
\* derivative evaluation at a state with such a V returns four defined
\* numbers.
C2_SingularRatesGuarded ==
    (pc = "api" /\ op = "deriv"
        /\ evals[1].at[1] \in {Lit(-40, 1), Lit(-55, 1)})
    => /\ IsFin(alpha_m(Lit(-40, 1)))
       /\ IsFin(alpha_n(Lit(-55, 1)))
       /\ Finite4(X)

\* C3: (r, hr) starts at (0, 0); in every iteration r is updated first,
\* from the old hr, r*(1 - dt/tr) + hr*dt, then hr, hr*(1 - dt/td) +
\* spike[i]/(tr*td); each changes nowhere else, once per iteration, and the
\* object is called for index i only after both updates for index i.
C3_SynapseOrder ==
    [][ /\ (pc = "config" /\ pc' = "for") => (r' = 0 /\ hr' = 0)
        /\ pc' = "r" => (pc = "for" /\ i' = nextI)
        /\ pc = "r" =>
             /\ pc' = "hr" /\ hr' = hr /\ i' = i
             /\ r' = FAdd(FMul(r, FSub(Lit(1, 1), FDiv(dt, Lit(2, 1)))),
                          FMul(hr, dt))
        /\ pc = "hr" =>
             /\ pc' = "append" /\ r' = r /\ i' = i
             /\ hr' = FAdd(FMul(hr, FSub(Lit(1, 1), FDiv(dt, Lit(20, 1)))),
                           FDiv(spike[i + 1], Lit(40, 1)))
        /\ pc = "append" => (pc' = "call" /\ i' = i /\ r' = r /\ hr' = hr)
        /\ pc \notin {"config", "r"} => r' = r
        /\ pc \notin {"config", "hr"} => hr' = hr
        /\ calls' # calls =>
             (pc = "call" /\ calls = i /\ calls' = i + 1
              /\ Len(r_list) = i + 1 /\ r_list[i + 1] = r /\ arg' = r * 50)
      ]_vars
\* C3 witness: the second iteration's call, with r made non-zero by the hr
\* that the impulse at index 0 left.
C3_Witness == pc = "call" /\ i = 1 /\ r > 0 /\ hr > 0 /\ spike[1] = Lit(1, 1)

\* C4: after the run the printed count is the number of indices i in
\* 0..N-2 with V[i] < 0 and V[i+1] > 0, both strict (a V of exactly 0, or
\* NaN, on either side is not counted), and nothing is counted before the
\* loop has ended.
C4_SpikeCount ==
    /\ pc = "done" =>
         num_spikes = Cardinality({j \in 1..(Len(X_arr) - 1) :
             /\ IsFin(X_arr[j][1]) /\ X_arr[j][1] < 0
             /\ IsFin(X_arr[j + 1][1]) /\ X_arr[j + 1][1] > 0})
    /\ pc # "done" => num_spikes = None
\* C4 witness: a finished record with one counted crossing and a row at
\* exactly 0.
C4_Witness ==
    /\ pc = "done" /\ num_spikes = 1 /\ Len(X_arr) = 3
    /\ X_arr[1][1] < 0 /\ X_arr[2][1] = Lit(30, 1) /\ X_arr[3][1] = 0

\* C5: the loop makes exactly nt = round(T/dt) iterations; iteration i
\* writes row i only, with the 4-element state the call of that iteration
\* returned; the indices go up by one, so no row is written twice.
C5_RowStep(ok) ==
    /\ \A j \in 1..Len(X_arr) :
         X_arr'[j] # X_arr[j] => (pc = "store" /\ j = i + 1)
    /\ (ok /\ pc = "store") => (Len(X) = 4 /\ X_arr'[i + 1] = X)
    /\ pc = "store" => (calls = i + 1 /\ Len(X_arr') = nt)
    /\ i' # i => i' = (IF i = None THEN 0 ELSE i + 1)
    /\ (pc = "for" /\ pc' = "detect") => (calls = nt /\ nextI = nt)
C5_RowsMatchSteps == [][C5_RowStep(TRUE)]_vars
\* C5 with a supported solver name (what is left of C5 without C1's case).
C5_SupportedSolverRows == [][C5_RowStep(solver \in Supported)]_vars

\* C6: a call replaces the stored state by the value it returns and
\* records the drive; the seven parameters, dt and the solver name never
\* change; a derivative evaluation changes no field.
C6_Frame ==
    [][ /\ \A f \in {"C_m", "g_Na", "g_K", "g_L", "E_Na", "E_K", "E_L",
                      "dt", "solver"} : HH_neuron'[f] = HH_neuron[f]
        /\ HH_neuron.dt = dt /\ HH_neuron.solver = solver
        /\ HH_neuron.C_m = Lit(1, 1) /\ HH_neuron.g_Na = Lit(120, 1)
        /\ HH_neuron.g_K = Lit(36, 1) /\ HH_neuron.g_L = Lit(3, 10)
        /\ HH_neuron.E_Na = Lit(50, 1) /\ HH_neuron.E_K = Lit(-77, 1)
        /\ HH_neuron.E_L = Lit(-54387, 1000)
        /\ calls' # calls =>
             (op' = "call" /\ HH_neuron'.states = X' /\ HH_neuron'.I_m = arg')
        /\ calls' = calls => (op' = "deriv" /\ HH_neuron' = HH_neuron)
      ]_vars
\* C6 witness: a derivative evaluation after two calls that moved the
\* state.
C6_Witness ==
    /\ pc = "api" /\ op = "deriv" /\ calls = 2 /\ Finite4(X)
    /\ Finite4(HH_neuron.states) /\ HH_neuron.states[1] # Lit(-65, 1)

\* C7: a dt <= 0, or a spike train shorter than nt, ends the run in an
\* error before the first iteration.
C7_BadConfigRejected ==
    ( \/ (dt <= 0 /\ pc # "config")
      \/ (pc \notin {"config", "done"} /\ nt # None /\ Len(spike) < nt) )
    => (pc = "error" /\ calls = 0 /\ r_list = <<>>)

\* Row j (from 0) of the record has been written.
RowWritten(j) ==
    /\ nextI # None
    /\ \/ nextI > j + 1
       \/ (nextI = j + 1 /\ pc \in {"for", "detect", "done"})

\* C8 (as claimed): the first row of the record has V = -65, the initial
\* membrane potential.
C8_FirstRowIsInitial == RowWritten(0) => X_arr[1][1] = Lit(-65, 1)
\* C8 (amended): the first row is what the first call returned, one solver
\* step from the initial state (-65, 0.05, 0.6, 0.32) under drive 0; with
\* Euler or RK4 its V is below -65, with another solver name it is NaN; the
\* initial state is not in the record.
C8_FirstRowIsFirstStep ==
    RowWritten(0) =>
      \E first \in {Call([HodgkinHuxleyModel(dt, solver) EXCEPT
                            !.states = <<Lit(-65, 1), Lit(5, 100),
                                         Lit(6, 10), Lit(32, 100)>>], 0)} :
        /\ X_arr[1] = (IF first.ret = NoneVec
                       THEN <<NaN, NaN, NaN, NaN>> ELSE first.ret)
        /\ r_list[1] = 0
        /\ solver \in Supported => X_arr[1][1] < Lit(-65, 1)
        /\ solver \notin Supported => X_arr[1][1] = NaN
\* C8 witness: the scenario's dt and solver, first row written.
C8_Witness ==
    /\ RowWritten(0) /\ dt = Lit(1, 100) /\ solver = "Euler" /\ pc = "done"
    /\ X_arr[1][1] < Lit(-65, 1)

\* C9: every derivative evaluation of the call of iteration i (one with
\* Euler, four with RK4) reads the drive r_i * 50, r_i being the r appended
\* in iteration i; none reads an earlier drive or None.
C9_DriveOfSameIteration ==
    (calls >= 1 /\ pc # "api") =>
      /\ Len(r_list) >= calls
      /\ pc = "store" => (calls = i + 1 /\ Len(r_list) = i + 1)
      /\ Len(evals) = (IF solver = "RK4" THEN 4
                       ELSE IF solver = "Euler" THEN 1 ELSE 0)
      /\ \A j \in 1..Len(evals) :
           evals[j].I # None /\ evals[j].I = r_list[calls] * 50
\* C9 witness: an RK4 call with a drive that differs from the one before.
C9_Witness ==
    /\ pc = "store" /\ solver = "RK4" /\ i >= 1 /\ Len(evals) = 4
    /\ evals[4].I > 0 /\ r_list[i + 1] # r_list[i]

\* C10: the two schemes.  half and full are the factors of k in the steps
\* added to the state to get the second/third and the fourth point.
C10_Scheme(half, full, self, x, d, ev, ret) ==
    /\ self.solver = "RK4" =>
        \E k1 \in {SMul(d, dALLdt(self, x))} :
        \E k2 \in {SMul(d, dALLdt(self, VAdd(x, SMul(half, k1))))} :
        \E k3 \in {SMul(d, dALLdt(self, VAdd(x, SMul(half, k2))))} :
        \E k4 \in {SMul(d, dALLdt(self, VAdd(x, SMul(full, k3))))} :
          /\ Len(ev) = 4
          /\ ev[1].at = x
          /\ ev[2].at = VAdd(x, SMul(half, k1))
          /\ ev[3].at = VAdd(x, SMul(half, k2))
          /\ ev[4].at = VAdd(x, SMul(full, k3))
          /\ ret = VAdd(x, VDiv(VAdd(VAdd(VAdd(k1, SMul(Lit(2, 1), k2)),
                                          SMul(Lit(2, 1), k3)), k4),
                                Lit(6, 1)))
    /\ self.solver = "Euler" =>
          /\ Len(ev) = 1
          /\ ev[1].at = x
          /\ ret = VAdd(x, SMul(d, dALLdt(self, x)))
\* C10 (as claimed): with k_i = dt*f(point_i), RK4 evaluates f at state,
\* state + dt/2*k1, state + dt/2*k2, state + dt*k3 and returns
\* state + (k1 + 2*k2 + 2*k3 + k4)/6; Euler evaluates f once, at state, and
\* returns state + dt*f(state).
C10_PointsScaledByDt ==
    [][ calls' # calls =>
          C10_Scheme(FDiv(dt, Lit(2, 1)), dt, HH_neuron', HH_neuron.states,
                     dt, evals', X') ]_vars
\* C10 (amended): the points are state, state + k1/2, state + k2/2 and
\* state + k3 (the k already hold the factor dt); the rest as claimed.
C10_PointsScaledOnce ==
    [][ calls' # calls =>
          C10_Scheme(Lit(1, 2), Lit(1, 1), HH_neuron', HH_neuron.states,
                     dt, evals', X') ]_vars
\* C10 witness: an RK4 call whose four points are four different states.
C10_Witness ==
    /\ pc = "api" /\ op = "call" /\ solver = "RK4" /\ Len(evals) = 4
    /\ Cardinality({evals[j].at : j \in 1..4}) = 4 /\ Finite4(X)

\* The index of the first impulse of the train, nt when it has none.
FirstSpike ==
    IF spike_times = {} THEN nt
    ELSE CHOOSE k \in spike_times : \A t \in spike_times : k <= t

\* How many times the loop has run hr = hr*(1-dt/td) + spike[i]/(tr*td).
HrUpdates ==
    IF pc \in {"r", "hr"} THEN i
    ELSE IF pc \in {"append", "call", "store"} THEN i + 1
    ELSE nextI

\* C11: the drive lags the spike train by one step.  With k the index of
\* the first impulse (spike[j] = 0 for all j < k), r_i = 0 and the drive
\* r_i*50 handed to the model is 0 in every iteration i <= k, iteration k
\* included; hr is 0 until iteration k has updated it and non-zero right
\* after; and the drive of iteration k+1 is the first that is not 0.
C11_DriveLagsOneStep ==
    (pc \in {"for", "r", "hr", "append", "call", "store"}) =>
      /\ \A j \in 1..Len(r_list) :
            (j - 1 <= FirstSpike) => (r_list[j] = 0 /\ Drive(r_list[j]) = 0)
      /\ (pc = "store" /\ i <= FirstSpike) =>
            (arg = 0 /\ \A j \in 1..Len(evals) : evals[j].I = 0)
      /\ (HrUpdates <= FirstSpike) => hr = 0
      /\ (HrUpdates = FirstSpike + 1) => (IsFin(hr) /\ hr # 0)
      /\ (Len(r_list) >= FirstSpike + 2) =>
            (IsFin(r_list[FirstSpike + 2]) /\ Drive(r_list[FirstSpike + 2]) # 0)
      /\ (pc = "store" /\ i = FirstSpike + 1) =>
            (IsFin(arg) /\ arg # 0 /\ arg = Drive(r_list[i + 1]))

\* The model has just been called in the iteration after the first impulse,
\* which is not at index 0: the drive was 0 up to and including the
\* impulse's own iteration and is not 0 now.
C11_Witness ==
    /\ pc = "store" /\ FirstSpike >= 1 /\ i = FirstSpike + 1
    /\ spike[FirstSpike + 1] = Lit(1, 1)
    /\ r_list[FirstSpike + 1] = 0 /\ arg # 0

====
